---- MODULE Spec2Model ----
(***************************************************************************)
(* forg - File Organizer.  A model of src/main.cpp: the argument parser,   *)
(* the classifier, the directory walker, the mover and the reporter.       *)
(*                                                                         *)
(* File names, extensions and command-line tokens are strings; a path is a *)
(* sequence of names relative to the current working directory (<< >> is   *)
(* the working directory itself).  C++ string positions are 0-based, the   *)
(* positions here are 1-based, and 0 plays the part of std::string::npos.  *)
(***************************************************************************)
EXTENDS Integers, Sequences, FiniteSets, TLC

VARIABLES
    pc,            \* position of the process in main / the function under study
    argv,          \* argv[1..argc-1], the command-line tokens
    argi,          \* parseArguments: the loop index i (1-based into argv)
    config,        \* struct Config
    warnings,      \* parseArguments: number of warnings written to std::cerr
    programName,   \* main: fs::path(argv[0]).filename()
    files,         \* filesystem: path of every non-directory |-> its content
    dirs,          \* filesystem: paths of the directories below the cwd
    snapshot,      \* the filesystem when the process started
    stack,         \* collectFiles: the active invocations, innermost first
    visited,       \* paths of the non-directory entries the walker iterated over
    failedDirs,    \* directories whose iteration threw (error printed)
    filesToMove,   \* std::vector<std::pair<fs::path, std::string>>
    moveIdx,       \* organizeFiles: position of the range-for over filesToMove
    movedCount,    \* std::map<std::string,int> movedCount
    skippedCount,  \* int skippedCount
    errorCount,    \* int errorCount
    failures,      \* number of filesystem operations that failed during the run
    totalRow,      \* the number printed in the "Total" row (-1: not printed)
    exitStatus,    \* process exit status (-1: still running)
    clsIn,         \* classifier study: the filename
    clsOut,        \* classifier study: the category returned
    uqName,        \* getUniquePath study: the filename argument
    uqNow,         \* getUniquePath study: the clock reading
    uqOut,         \* getUniquePath study: the result (path and probes made)
    uqCalls        \* getUniquePath study: calls made so far

vars == << pc, argv, argi, config, warnings, programName, files, dirs,
           snapshot, stack,
           visited, failedDirs, filesToMove, moveIdx, movedCount, skippedCount,
           errorCount, failures, totalRow, exitStatus, clsIn, clsOut,
           uqName, uqNow, uqOut, uqCalls >>

parserVars  == << argv, argi, config, warnings >>
fsVars      == << files, dirs >>
startVars   == << programName, snapshot >>
walkerVars  == << stack, visited, failedDirs, filesToMove, skippedCount >>
moverVars   == << moveIdx, movedCount, errorCount, failures >>
reportVars  == << totalRow, exitStatus >>
clsVars     == << clsIn, clsOut >>
uqVars      == << uqName, uqNow, uqOut, uqCalls >>

(***************************************************************************)
(* Strings                                                                 *)
(***************************************************************************)
CharAt(s, i) == SubSeq(s, i, i)

Substr(s, from) == SubSeq(s, from, Len(s))

UpperChars == "ABCDEFGHIJKLMNOPQRSTUVWXYZ"
LowerChars == "abcdefghijklmnopqrstuvwxyz"

\* std::tolower on one character (C locale)
ToLowerChar(c) ==
    IF \E k \in 1..26 : CharAt(UpperChars, k) = c
    THEN CharAt(LowerChars, CHOOSE k \in 1..26 : CharAt(UpperChars, k) = c)
    ELSE c

RECURSIVE toLowerCase(_)
toLowerCase(str) ==
    IF str = "" THEN ""
    ELSE ToLowerChar(CharAt(str, 1)) \o toLowerCase(Substr(str, 2))

\* filename.rfind(c): the last position of c, 0 when there is none
RFind(s, c) ==
    LET hits == { k \in 1..Len(s) : CharAt(s, k) = c }
    IN  IF hits = {} THEN 0 ELSE CHOOSE k \in hits : \A j \in hits : j <= k

Digits == "0123456789"

DigitChar(d) == CharAt(Digits, d + 1)

IsDigit(c) == \E d \in 0..9 : DigitChar(d) = c

DigitVal(c) == CHOOSE d \in 0..9 : DigitChar(d) = c

\* std::to_string of a non-negative integer
RECURSIVE to_string(_)
to_string(n) ==
    IF n < 10 THEN DigitChar(n)
    ELSE to_string(n \div 10) \o DigitChar(n % 10)

(***************************************************************************)
(* Classifier                                                              *)
(***************************************************************************)
\* FILE_CATEGORIES is a std::map: it iterates in the order of its keys
CategoryOrder ==
    << "Archives", "Audio", "Books", "Code", "Database", "Documents",
       "Executables", "Images", "Videos" >>

Categories == { CategoryOrder[k] : k \in 1..Len(CategoryOrder) }

FILE_CATEGORIES ==
    [ c \in Categories |->
        CASE c = "Images" -> {"jpg", "jpeg", "png", "gif", "bmp", "tiff", "svg", "webp", "ico", "psd", "ai", "eps"}
          [] c = "Videos" -> {"mp4", "mkv", "avi", "mov", "wmv", "flv", "webm", "m4v", "mpeg", "mpg", "3gp", "rmvb"}
          [] c = "Audio" -> {"mp3", "wav", "flac", "aac", "ogg", "m4a", "wma", "aiff", "mid", "midi"}
          [] c = "Documents" -> {"pdf", "doc", "docx", "txt", "rtf", "odt", "xls", "xlsx", "ppt", "pptx", "csv", "md", "markdown", "log"}
          [] c = "Archives" -> {"zip", "rar", "7z", "tar", "gz", "bz2", "xz", "iso", "dmg", "pkg", "deb", "rpm"}
          [] c = "Code" -> {"cpp", "c", "h", "hpp", "py", "js", "ts", "html", "htm", "css", "scss", "java", "go", "rs", "rb", "php", "swift", "kt", "scala", "sh", "bash", "json", "xml", "yaml", "yml", "toml", "ini", "cfg", "conf"}
          [] c = "Executables" -> {"exe", "app", "bin", "msi", "run", "elf", "so", "dll", "dylib"}
          [] c = "Database" -> {"sql", "db", "sqlite", "mdb", "accdb", "frm", "ibd"}
          [] c = "Books" -> {"epub", "mobi", "azw", "azw3", "fb2", "djvu", "chm"} ]

\* getFileExtension without the case folding
getFileExtensionKeepCase(filename) ==
    LET dotPos == RFind(filename, ".")
    IN  IF dotPos = 0 \/ dotPos = Len(filename) THEN ""
        ELSE Substr(filename, dotPos + 1)

getFileExtension(filename) ==
    LET dotPos == RFind(filename, ".")
    IN  IF dotPos = 0 \/ dotPos = Len(filename) THEN ""
        ELSE toLowerCase(Substr(filename, dotPos + 1))

\* getCategory without the "Others" default
getCategoryNoFallback(extension) ==
    LET hits == { c \in Categories : extension \in FILE_CATEGORIES[c] }
    IN  IF hits = {} THEN "" ELSE CHOOSE c \in hits : TRUE

getCategory(extension) ==
    IF extension = "" THEN "Others"
    ELSE LET hits == { k \in 1..Len(CategoryOrder) :
                         extension \in FILE_CATEGORIES[CategoryOrder[k]] }
         IN  IF hits = {} THEN "Others"
             ELSE CategoryOrder[CHOOSE k \in hits : \A j \in hits : k <= j]

(***************************************************************************)
(* Skip rules                                                              *)
(***************************************************************************)
SKIP_PATTERNS ==
    { ".git", ".svn", ".hg", ".bzr", ".vscode", ".idea", ".vs",
      "build", "dist", "node_modules", ".cache", "__pycache__",
      ".DS_Store", "Thumbs.db", ".Spotlight-V100", ".Trashes" }

\* path.filename() of a path below the working directory
Filename(path) == path[Len(path)]

Parent(path) == SubSeq(path, 1, Len(path) - 1)

\* the skip test without the rule for hidden files
shouldSkipListOnly(path) == Filename(path) \in SKIP_PATTERNS

shouldSkip(path) ==
    LET filename == Filename(path)
    IN  \/ filename # "" /\ CharAt(filename, 1) = "."
        \/ filename \in SKIP_PATTERNS

(***************************************************************************)
(* Collision resolution                                                    *)
(***************************************************************************)
\* fs::exists
Exists(path) == path \in DOMAIN files \/ path \in dirs

\* the safety limit of the numeric search in getUniquePath
SafetyLimit == 1000

\* the limit test made one attempt early
LimitReachedEarly(counter) == counter >= SafetyLimit

\* "if (counter > 1000)", evaluated after counter++
LimitReached(counter) == counter > SafetyLimit

\* the split of the filename into baseName and extension (with its dot)
BaseName(filename) ==
    LET dotPos == RFind(filename, ".")
    IN  IF dotPos # 0 /\ dotPos > 1 THEN SubSeq(filename, 1, dotPos - 1)
        ELSE filename

DotExtension(filename) ==
    LET dotPos == RFind(filename, ".")
    IN  IF dotPos # 0 /\ dotPos > 1 THEN Substr(filename, dotPos) ELSE ""

\* at most steps passes of the while (true) loop, from counter on: the path
\* returned and the numeric names probed, or the counter the loop has reached
RECURSIVE LoopPasses(_, _, _, _, _, _)
LoopPasses(dir, baseName, extension, counter, now, steps) ==
    LET newPath == Append(dir, baseName \o "_" \o to_string(counter) \o extension)
    IN  IF steps = 0 THEN [done |-> FALSE, counter |-> counter]
        ELSE IF ~Exists(newPath)
             THEN [done |-> TRUE, path |-> newPath, probes |-> counter]
        ELSE IF LimitReached(counter + 1)
             THEN [done   |-> TRUE,
                   path   |-> Append(dir, baseName \o "_" \o to_string(now) \o extension),
                   probes |-> counter]
        ELSE LoopPasses(dir, baseName, extension, counter + 1, now, steps - 1)

\* the while (true) loop, evaluated forty passes at a time to keep the
\* nesting of the evaluation shallow
RECURSIVE getUniquePathLoop(_, _, _, _, _)
getUniquePathLoop(dir, baseName, extension, counter, now) ==
    LET r == LoopPasses(dir, baseName, extension, counter, now, 40)
    IN  IF r.done THEN [path |-> r.path, probes |-> r.probes]
        ELSE getUniquePathLoop(dir, baseName, extension, r.counter, now)

\* getUniquePath, with the number of numeric names it probed; now is the
\* reading of std::chrono::system_clock the fallback would take
getUniquePathProbes(dir, filename, now) ==
    LET targetPath == Append(dir, filename)
    IN  IF ~Exists(targetPath) THEN [path |-> targetPath, probes |-> 0]
        ELSE getUniquePathLoop(dir, BaseName(filename), DotExtension(filename), 1, now)

getUniquePath(dir, filename, now) == getUniquePathProbes(dir, filename, now).path

(***************************************************************************)
(* Values of the variables a study does not use                            *)
(***************************************************************************)
DefaultConfig ==
    [ prefix |-> "", verbose |-> FALSE, dryRun |-> FALSE, recursive |-> FALSE,
      depth |-> 1, showHelp |-> FALSE, showVersion |-> FALSE ]

NoFiles == [ p \in {} |-> 0 ]

NoCounts == [ c \in {} |-> 0 ]

ParserIdle == argv = << >> /\ argi = 1 /\ config = DefaultConfig /\ warnings = 0

FsIdle == files = NoFiles /\ dirs = {} /\ snapshot = [files |-> NoFiles, dirs |-> {}]

RunIdle ==
    /\ programName = "forg"
    /\ stack = << >> /\ visited = {} /\ failedDirs = {} /\ filesToMove = << >>
    /\ skippedCount = 0
    /\ moveIdx = 1 /\ movedCount = NoCounts /\ errorCount = 0 /\ failures = 0
    /\ totalRow = -1 /\ exitStatus = -1

ClsIdle == clsIn = "" /\ clsOut = ""

UqIdle == uqName = "" /\ uqNow = 0 /\ uqOut = [path |-> << >>, probes |-> 0] /\ uqCalls = 0

(***************************************************************************)
(* Study of the classifier: classify(filename)                             *)
(***************************************************************************)
ToUpperChar(c) ==
    IF \E k \in 1..26 : CharAt(LowerChars, k) = c
    THEN CharAt(UpperChars, CHOOSE k \in 1..26 : CharAt(LowerChars, k) = c)
    ELSE c

RECURSIVE ToUpperCase(_)
ToUpperCase(str) ==
    IF str = "" THEN ""
    ELSE ToUpperChar(CharAt(str, 1)) \o ToUpperCase(Substr(str, 2))

Capitalized(str) == ToUpperChar(CharAt(str, 1)) \o Substr(str, 2)

\* the letter-case variants of an extension that the study feeds in
CaseVariants(x) == { x, ToUpperCase(x), Capitalized(x) }

AllExtensions == UNION { FILE_CATEGORIES[c] : c \in Categories }

\* what precedes the last dot
ClsStems == { "f", "F", "", "my.file" }

\* names without a usable extension, or with one the table does not list
ClsUnlisted == { "f", "f.", "noext", "", ".", "a.b.", "f.xyz", "F.XYZ", "f.jpgx", "jpg", "f.j" }

ClsNames ==
    { stem \o "." \o v : stem \in ClsStems,
                         v \in UNION { CaseVariants(x) : x \in AllExtensions } }
    \cup ClsUnlisted

InitClassify ==
    /\ pc = "classify"
    /\ clsIn \in ClsNames
    /\ clsOut = ""
    /\ ParserIdle /\ FsIdle /\ RunIdle /\ UqIdle

Classify ==
    /\ pc = "classify"
    /\ clsOut' = getCategory(getFileExtension(clsIn))
    /\ pc' = "classified"
    /\ UNCHANGED << parserVars, startVars, fsVars, walkerVars, moverVars,
                    reportVars, clsIn, uqVars >>

NextClassify == Classify

SpecClassify == InitClassify /\ [][NextClassify]_vars

EndsWith(s, suffix) ==
    Len(s) >= Len(suffix) /\ Substr(s, Len(s) - Len(suffix) + 1) = suffix

\* C9: every extension X listed under category C classifies a filename that
\* ends in ".X" as C, whatever the letter case of the name and of the
\* extension; no extension is listed under two categories; and a filename
\* with no ".", with "." as its last character, or with an extension that is
\* not in the table is classified as "Others".
C9_Classification ==
    /\ \A c1, c2 \in Categories :
           c1 # c2 => FILE_CATEGORIES[c1] \cap FILE_CATEGORIES[c2] = {}
    /\ pc = "classified" =>
         /\ \A c \in Categories : \A x \in FILE_CATEGORIES[c] :
                (\E stem \in ClsStems : \E v \in CaseVariants(x) :
                     clsIn = stem \o "." \o v) => clsOut = c
         /\ RFind(clsIn, ".") = 0 => clsOut = "Others"
         /\ (clsIn # "" /\ CharAt(clsIn, Len(clsIn)) = ".") => clsOut = "Others"
         /\ (\A x \in AllExtensions : \A v \in CaseVariants(x) :
                 ~EndsWith(clsIn, "." \o v)) => clsOut = "Others"

\* an upper-case extension of the table has been classified
C9_Witness ==
    /\ pc = "classified"
    /\ clsIn = "F.JPG"
    /\ clsOut = "Images"

(***************************************************************************)
(* Argument parser                                                         *)
(***************************************************************************)
INT_MIN == -2147483647 - 1

\* the first position of str at or after k that holds no space
RECURSIVE SkipSpaces(_, _)
SkipSpaces(str, k) ==
    IF k <= Len(str) /\ CharAt(str, k) = " " THEN SkipSpaces(str, k + 1) ELSE k

\* the digits of str from position k on, accumulated as a negative number;
\* 1 when the value leaves the range of int
RECURSIVE NegDigits(_, _, _)
NegDigits(str, k, acc) ==
    IF k > Len(str) \/ ~IsDigit(CharAt(str, k)) THEN acc
    ELSE LET d == DigitVal(CharAt(str, k))
         IN  IF acc < -214748364 \/ (acc = -214748364 /\ d > 8) THEN 1
             ELSE NegDigits(str, k + 1, acc * 10 - d)

\* std::stoi: leading spaces, an optional sign, then the longest run of
\* digits; what follows the digits is ignored.  threw is TRUE for
\* std::invalid_argument (no digit) and std::out_of_range.
stoi(str) ==
    LET s0     == SkipSpaces(str, 1)
        signed == s0 <= Len(str) /\ CharAt(str, s0) \in {"-", "+"}
        neg    == signed /\ CharAt(str, s0) = "-"
        first  == IF signed THEN s0 + 1 ELSE s0
        none   == first > Len(str) \/ ~IsDigit(CharAt(str, first))
        acc    == NegDigits(str, first, 0)
    IN  IF none \/ acc = 1 \/ (~neg /\ acc = INT_MIN)
        THEN [threw |-> TRUE, value |-> 0]
        ELSE [threw |-> FALSE, value |-> IF neg THEN acc ELSE -acc]

argc == Len(argv) + 1

\* argv[i] of the loop
arg == argv[argi]

InLoop == pc = "parse" /\ argi < argc

ParseKeep == UNCHANGED << argv, startVars, fsVars, walkerVars, moverVars,
                          reportVars, clsVars, uqVars >>

ParseHelp ==
    /\ InLoop
    /\ arg = "-h" \/ arg = "--help"
    /\ config' = [config EXCEPT !.showHelp = TRUE]
    /\ argi' = argi + 1
    /\ UNCHANGED << pc, warnings >> /\ ParseKeep

ParseVersion ==
    /\ InLoop
    /\ arg = "--version"
    /\ config' = [config EXCEPT !.showVersion = TRUE]
    /\ argi' = argi + 1
    /\ UNCHANGED << pc, warnings >> /\ ParseKeep

ParseVerbose ==
    /\ InLoop
    /\ arg = "-v" \/ arg = "--verbose"
    /\ config' = [config EXCEPT !.verbose = TRUE]
    /\ argi' = argi + 1
    /\ UNCHANGED << pc, warnings >> /\ ParseKeep

ParseDryRun ==
    /\ InLoop
    /\ arg = "-n" \/ arg = "--dry-run"
    /\ config' = [config EXCEPT !.dryRun = TRUE]
    /\ argi' = argi + 1
    /\ UNCHANGED << pc, warnings >> /\ ParseKeep

ParseRecursive ==
    /\ InLoop
    /\ arg = "-r" \/ arg = "--recursive"
    /\ config' = [config EXCEPT !.recursive = TRUE]
    /\ argi' = argi + 1
    /\ UNCHANGED << pc, warnings >> /\ ParseKeep

IsDepthFlag == (arg = "-d" \/ arg = "--depth") /\ argi + 1 < argc

IsPrefixFlag == (arg = "-p" \/ arg = "--prefix") /\ argi + 1 < argc

SimpleFlags ==
    { "-h", "--help", "--version", "-v", "--verbose", "-n", "--dry-run",
      "-r", "--recursive" }

\* the try block: stoi(argv[++i]) returned
ParseDepth ==
    /\ InLoop
    /\ arg \notin SimpleFlags
    /\ IsDepthFlag
    /\ ~stoi(argv[argi + 1]).threw
    /\ LET depth == stoi(argv[argi + 1]).value
       IN  IF depth < 1
           THEN /\ config' = [config EXCEPT !.depth = 1]
                /\ warnings' = warnings + 1
           ELSE /\ config' = [config EXCEPT !.depth = depth]
                /\ warnings' = warnings
    /\ argi' = argi + 2
    /\ UNCHANGED pc /\ ParseKeep

\* the catch block: stoi threw after ++i, before config.depth was assigned;
\* the handler's i++ and the loop's i++ follow
ParseDepthInvalid ==
    /\ InLoop
    /\ arg \notin SimpleFlags
    /\ IsDepthFlag
    /\ stoi(argv[argi + 1]).threw
    /\ warnings' = warnings + 1
    /\ argi' = argi + 3
    /\ UNCHANGED << pc, config >> /\ ParseKeep

ParsePrefix ==
    /\ InLoop
    /\ arg \notin SimpleFlags
    /\ ~IsDepthFlag
    /\ IsPrefixFlag
    /\ config' = [config EXCEPT !.prefix = argv[argi + 1]]
    /\ argi' = argi + 2
    /\ UNCHANGED << pc, warnings >> /\ ParseKeep

ParseUnknown ==
    /\ InLoop
    /\ arg \notin SimpleFlags
    /\ ~IsDepthFlag
    /\ ~IsPrefixFlag
    /\ warnings' = warnings + 1
    /\ argi' = argi + 1
    /\ UNCHANGED << pc, config >> /\ ParseKeep

\* return config
ParseReturn ==
    /\ pc = "parse"
    /\ ~(argi < argc)
    /\ pc' = "parsed"
    /\ UNCHANGED << argi, config, warnings >> /\ ParseKeep

parseArguments ==
    \/ ParseHelp \/ ParseVersion \/ ParseVerbose \/ ParseDryRun \/ ParseRecursive
    \/ ParseDepth \/ ParseDepthInvalid \/ ParsePrefix \/ ParseUnknown
    \/ ParseReturn

\* the longest argument list of the parser study
MaxArgs == 3

ArgTokens ==
    { "-h", "--version", "-v", "-n", "--dry-run", "-r", "-d", "--depth", "-p",
      "3", "0", "abc", "2x", "-x", "99999999999" }

RECURSIVE SeqsUpTo(_, _)
SeqsUpTo(S, n) ==
    IF n = 0 THEN { << >> }
    ELSE LET shorter == SeqsUpTo(S, n - 1)
         IN  shorter \cup { Append(q, t) : q \in shorter, t \in S }

InitParse ==
    /\ pc = "parse"
    /\ argv \in SeqsUpTo(ArgTokens, MaxArgs)
    /\ argi = 1
    /\ config = DefaultConfig
    /\ warnings = 0
    /\ FsIdle /\ RunIdle /\ ClsIdle /\ UqIdle

NextParse == parseArguments

SpecParse == InitParse /\ [][NextParse]_vars

\* the command line as section 4.1 reads it: -d/--depth and -p/--prefix take
\* the token that follows them as their value
ValueFlags == { "-d", "--depth", "-p", "--prefix" }

RECURSIVE IsValuePos(_, _)
IsValuePos(a, j) == j > 1 /\ a[j - 1] \in ValueFlags /\ ~IsValuePos(a, j - 1)

FlagPositions(a, flags) ==
    { j \in 1..Len(a) : a[j] \in flags /\ ~IsValuePos(a, j) }

Last(S) == CHOOSE j \in S : \A k \in S : k <= j

\* an optional sign and then digits only
IsInteger(tok) ==
    LET first == IF tok # "" /\ CharAt(tok, 1) \in {"-", "+"} THEN 2 ELSE 1
    IN  /\ first <= Len(tok)
        /\ \A k \in first..Len(tok) : IsDigit(CharAt(tok, k))

\* C3: a -d/--depth with an invalid value and an unknown flag only produce a
\* warning: every other recognized flag of the list, before or after it, has
\* taken effect in the Config that parseArguments returns.
C3_WarningsAreLocal ==
    pc = "parsed" =>
        /\ FlagPositions(argv, {"-h", "--help"}) # {} => config.showHelp
        /\ FlagPositions(argv, {"--version"}) # {} => config.showVersion
        /\ FlagPositions(argv, {"-v", "--verbose"}) # {} => config.verbose
        /\ FlagPositions(argv, {"-n", "--dry-run"}) # {} => config.dryRun
        /\ FlagPositions(argv, {"-r", "--recursive"}) # {} => config.recursive
        /\ LET withText == { j \in FlagPositions(argv, {"-p", "--prefix"}) :
                               j < Len(argv) }
           IN  withText # {} => config.prefix = argv[Last(withText) + 1]

\* C4: when the last -d/--depth has no following token, a following token
\* that is not an integer, or an integer < 1, the returned depth is 1, also
\* after an earlier valid -d; and the returned depth is always >= 1.
C4_DepthFallback ==
    pc = "parsed" =>
        /\ config.depth >= 1
        /\ LET flags == FlagPositions(argv, {"-d", "--depth"})
           IN  flags # {} =>
                 LET j == Last(flags)
                 IN  (\/ j = Len(argv)
                      \/ ~IsInteger(argv[j + 1])
                      \/ (~stoi(argv[j + 1]).threw /\ stoi(argv[j + 1]).value < 1))
                     => config.depth = 1

(***************************************************************************)
(* main and organizeFiles                                                  *)
(***************************************************************************)
\* the current working directory
currentDir == << >>

\* the entries fs::directory_iterator(dir) yields
Entries(dir) == { p \in DOMAIN files \cup dirs : p # << >> /\ Parent(p) = dir }

\* entry.is_directory()
IsDirectory(p) == p \in dirs

\* the most filesystem operations that fail in one run
MaxFailures == 1

MayFail == failures < MaxFailures

Frame(dir, depth) == [ dir |-> dir, depth |-> depth, open |-> FALSE, todo |-> {} ]

\* the invocation of collectFiles that is running, or the loop of lines 389-420
top == stack[1]

Continue(e) == stack' = << [top EXCEPT !.todo = @ \ {e}] >> \o Tail(stack)

MainKeep == UNCHANGED << parserVars, startVars, clsVars, uqVars >>

\* main: help and version return 0 before any traversal
MainHelp ==
    /\ pc = "main"
    /\ config.showHelp
    /\ pc' = "done" /\ exitStatus' = 0
    /\ UNCHANGED << fsVars, walkerVars, moverVars, totalRow >> /\ MainKeep

MainVersion ==
    /\ pc = "main"
    /\ ~config.showHelp /\ config.showVersion
    /\ pc' = "done" /\ exitStatus' = 0
    /\ UNCHANGED << fsVars, walkerVars, moverVars, totalRow >> /\ MainKeep

\* organizeFiles up to the choice of the way the files are collected
OrganizeStart ==
    /\ pc = "main"
    /\ ~config.showHelp /\ ~config.showVersion
    /\ pc' = IF config.recursive THEN "collect" ELSE "list"
    /\ stack' = << Frame(currentDir, 1) >>
    /\ UNCHANGED << fsVars, visited, failedDirs, filesToMove, skippedCount,
                    moverVars, reportVars >> /\ MainKeep

WalkKeep == UNCHANGED << pc, fsVars, moverVars, reportVars >> /\ MainKeep

\* the recursive call passes the caller's depth on unchanged
ChildDepthSame(currentDepth) == currentDepth

\* collectFiles(entry.path(), currentDepth + 1, ...)
ChildDepth(currentDepth) == currentDepth + 1

\* "if (config.recursive && currentDepth < maxDepth)"
Descends(currentDepth, maxDepth) == config.recursive /\ currentDepth < maxDepth

\* "if (filename == programName || filename == "forg")"
IsProgramFile(filename) == filename = programName \/ filename = "forg"

\* filesToMove.push_back({entry.path(), category})
PushBack(e) ==
    filesToMove' =
        Append(filesToMove, << e, getCategory(getFileExtension(Filename(e))) >>)

\* collectFiles: the depth test, then the directory is opened
CollectOpen ==
    /\ pc = "collect" /\ stack # << >> /\ ~top.open
    /\ IF top.depth > config.depth
       THEN stack' = Tail(stack)
       ELSE stack' = << [top EXCEPT !.open = TRUE, !.todo = Entries(top.dir)] >>
                        \o Tail(stack)
    /\ UNCHANGED << visited, failedDirs, filesToMove, skippedCount >> /\ WalkKeep

\* collectFiles: fs::directory_iterator(dir) throws; the handler prints
\* "Error accessing directory" and the invocation returns
CollectOpenFails ==
    /\ pc = "collect" /\ stack # << >> /\ ~top.open
    /\ top.depth <= config.depth
    /\ MayFail
    /\ failures' = failures + 1
    /\ failedDirs' = failedDirs \cup { top.dir }
    /\ stack' = Tail(stack)
    /\ UNCHANGED << pc, fsVars, visited, filesToMove, skippedCount, moveIdx,
                    movedCount, errorCount, reportVars >> /\ MainKeep

CollectSkipDir ==
    /\ pc = "collect" /\ stack # << >> /\ top.open
    /\ \E e \in top.todo :
        /\ IsDirectory(e)
        /\ shouldSkip(e)
        /\ Continue(e)
    /\ UNCHANGED << visited, failedDirs, filesToMove, skippedCount >> /\ WalkKeep

CollectDescend ==
    /\ pc = "collect" /\ stack # << >> /\ top.open
    /\ \E e \in top.todo :
        /\ IsDirectory(e)
        /\ ~shouldSkip(e)
        /\ Descends(top.depth, config.depth)
        /\ stack' = << Frame(e, ChildDepth(top.depth)),
                       [top EXCEPT !.todo = @ \ {e}] >> \o Tail(stack)
    /\ UNCHANGED << visited, failedDirs, filesToMove, skippedCount >> /\ WalkKeep

CollectPassDir ==
    /\ pc = "collect" /\ stack # << >> /\ top.open
    /\ \E e \in top.todo :
        /\ IsDirectory(e)
        /\ ~shouldSkip(e)
        /\ ~Descends(top.depth, config.depth)
        /\ Continue(e)
    /\ UNCHANGED << visited, failedDirs, filesToMove, skippedCount >> /\ WalkKeep

CollectSkipProgram ==
    /\ pc = "collect" /\ stack # << >> /\ top.open
    /\ \E e \in top.todo :
        /\ ~IsDirectory(e)
        /\ IsProgramFile(Filename(e))
        /\ visited' = visited \cup {e}
        /\ Continue(e)
    /\ UNCHANGED << failedDirs, filesToMove, skippedCount >> /\ WalkKeep

CollectSkipFile ==
    /\ pc = "collect" /\ stack # << >> /\ top.open
    /\ \E e \in top.todo :
        /\ ~IsDirectory(e)
        /\ ~IsProgramFile(Filename(e))
        /\ shouldSkip(e)
        /\ visited' = visited \cup {e}
        /\ Continue(e)
    /\ UNCHANGED << failedDirs, filesToMove, skippedCount >> /\ WalkKeep

CollectFile ==
    /\ pc = "collect" /\ stack # << >> /\ top.open
    /\ \E e \in top.todo :
        /\ ~IsDirectory(e)
        /\ ~IsProgramFile(Filename(e))
        /\ ~shouldSkip(e)
        /\ visited' = visited \cup {e}
        /\ PushBack(e)
        /\ Continue(e)
    /\ UNCHANGED << failedDirs, skippedCount >> /\ WalkKeep

\* collectFiles: the range-for is over, the invocation returns
CollectReturn ==
    /\ pc = "collect" /\ stack # << >> /\ top.open
    /\ top.todo = {}
    /\ stack' = Tail(stack)
    /\ UNCHANGED << visited, failedDirs, filesToMove, skippedCount >> /\ WalkKeep

\* organizeFiles: collectFiles(currentDir, 1, ...) has returned
CollectDone ==
    /\ pc = "collect" /\ stack = << >>
    /\ pc' = "collected"
    /\ UNCHANGED << fsVars, walkerVars, moverVars, reportVars >> /\ MainKeep

collectFiles ==
    \/ CollectOpen \/ CollectOpenFails \/ CollectSkipDir \/ CollectDescend
    \/ CollectPassDir \/ CollectSkipProgram \/ CollectSkipFile \/ CollectFile
    \/ CollectReturn \/ CollectDone

\* the status of a process ended by std::terminate (SIGABRT)
Aborted == 134

\* organizeFiles, not recursive: fs::directory_iterator(currentDir)
ListOpen ==
    /\ pc = "list" /\ stack # << >> /\ ~top.open
    /\ stack' = << [top EXCEPT !.open = TRUE, !.todo = Entries(top.dir)] >>
    /\ UNCHANGED << visited, failedDirs, filesToMove, skippedCount >> /\ WalkKeep

\* the same, throwing: nothing catches the exception and the process ends
ListOpenFails ==
    /\ pc = "list" /\ stack # << >> /\ ~top.open
    /\ MayFail
    /\ failures' = failures + 1
    /\ failedDirs' = failedDirs \cup { top.dir }
    /\ stack' = << >>
    /\ pc' = "done" /\ exitStatus' = Aborted
    /\ UNCHANGED << fsVars, visited, filesToMove, skippedCount, moveIdx,
                    movedCount, errorCount, totalRow >> /\ MainKeep

ListDirectory ==
    /\ pc = "list" /\ stack # << >> /\ top.open
    /\ \E e \in top.todo :
        /\ IsDirectory(e)
        /\ Continue(e)
    /\ UNCHANGED << visited, failedDirs, filesToMove, skippedCount >> /\ WalkKeep

ListSkipProgram ==
    /\ pc = "list" /\ stack # << >> /\ top.open
    /\ \E e \in top.todo :
        /\ ~IsDirectory(e)
        /\ IsProgramFile(Filename(e))
        /\ visited' = visited \cup {e}
        /\ Continue(e)
    /\ UNCHANGED << failedDirs, filesToMove, skippedCount >> /\ WalkKeep

ListSkipFile ==
    /\ pc = "list" /\ stack # << >> /\ top.open
    /\ \E e \in top.todo :
        /\ ~IsDirectory(e)
        /\ ~IsProgramFile(Filename(e))
        /\ shouldSkip(e)
        /\ visited' = visited \cup {e}
        /\ skippedCount' = skippedCount + 1
        /\ Continue(e)
    /\ UNCHANGED << failedDirs, filesToMove >> /\ WalkKeep

ListFile ==
    /\ pc = "list" /\ stack # << >> /\ top.open
    /\ \E e \in top.todo :
        /\ ~IsDirectory(e)
        /\ ~IsProgramFile(Filename(e))
        /\ ~shouldSkip(e)
        /\ visited' = visited \cup {e}
        /\ PushBack(e)
        /\ Continue(e)
    /\ UNCHANGED << failedDirs, skippedCount >> /\ WalkKeep

ListDone ==
    /\ pc = "list" /\ stack # << >> /\ top.open
    /\ top.todo = {}
    /\ stack' = << >>
    /\ pc' = "collected"
    /\ UNCHANGED << fsVars, visited, failedDirs, filesToMove, skippedCount,
                    moverVars, reportVars >> /\ MainKeep

listTopLevel ==
    \/ ListOpen \/ ListOpenFails \/ ListDirectory \/ ListSkipProgram
    \/ ListSkipFile \/ ListFile \/ ListDone

\* "No files to organize."
NothingToDo ==
    /\ pc = "collected"
    /\ filesToMove = << >>
    /\ pc' = "done" /\ exitStatus' = 0
    /\ UNCHANGED << fsVars, walkerVars, moverVars, totalRow >> /\ MainKeep

StartMoving ==
    /\ pc = "collected"
    /\ filesToMove # << >>
    /\ pc' = "move"
    /\ UNCHANGED << fsVars, walkerVars, moverVars, reportVars >> /\ MainKeep

(***************************************************************************)
(* Mover and reporter (organizeFiles, lines 428-500)                       *)
(***************************************************************************)
\* readings of std::chrono::system_clock, in milliseconds
Clock == { 1700000000, 1700000001 }

\* the element of filesToMove the range-for is at
filePath == filesToMove[moveIdx][1]

category == filesToMove[moveIdx][2]

folderName == IF config.prefix = "" THEN category ELSE config.prefix \o category

targetDir == Append(currentDir, folderName)

\* the destination folder is made in a dry run too
CreatesDirectoriesAlways == TRUE

\* "if (!config.dryRun)" around fs::create_directories
CreatesDirectories == ~config.dryRun

\* "if (!config.dryRun)" around fs::rename
Renames == ~config.dryRun

\* fs::create_directories(targetDir), when it is called
DirsAfterCreate == IF CreatesDirectories THEN dirs \cup { targetDir } ELSE dirs

\* fs::rename(from, to): to is replaced when it exists
FilesAfterRename(from, to) ==
    [ p \in (DOMAIN files \ {from}) \cup {to} |->
        IF p = to THEN files[from] ELSE files[p] ]

\* movedCount[category]++
Increment(counts, c) ==
    [ k \in DOMAIN counts \cup {c} |->
        IF k = c THEN (IF c \in DOMAIN counts THEN counts[c] + 1 ELSE 1)
        ELSE counts[k] ]

Moving == pc = "move" /\ moveIdx <= Len(filesToMove)

MoveKeep == UNCHANGED << pc, walkerVars, reportVars >> /\ MainKeep

\* fs::create_directories throws: errorCount++ and continue
MoveCreateFails ==
    /\ Moving
    /\ CreatesDirectories
    /\ MayFail
    /\ failures' = failures + 1
    /\ errorCount' = errorCount + 1
    /\ moveIdx' = moveIdx + 1
    /\ UNCHANGED << fsVars, movedCount >> /\ MoveKeep

\* fs::rename throws: errorCount++ and continue
MoveRenameFails ==
    /\ Moving
    /\ Renames
    /\ \/ MayFail /\ failures' = failures + 1
       \/ filePath \notin DOMAIN files /\ failures' = failures
    /\ dirs' = DirsAfterCreate
    /\ errorCount' = errorCount + 1
    /\ moveIdx' = moveIdx + 1
    /\ UNCHANGED << files, movedCount >> /\ MoveKeep

\* the file is renamed to the path getUniquePath returned
MoveFile ==
    /\ Moving
    /\ Renames
    /\ filePath \in DOMAIN files
    /\ dirs' = DirsAfterCreate
    /\ \E now \in Clock :
         files' = FilesAfterRename(filePath,
                      getUniquePath(targetDir, Filename(filePath), now))
    /\ movedCount' = Increment(movedCount, category)
    /\ moveIdx' = moveIdx + 1
    /\ UNCHANGED << errorCount, failures >> /\ MoveKeep

\* dry run: the move is only printed
MovePreview ==
    /\ Moving
    /\ ~Renames
    /\ dirs' = DirsAfterCreate
    /\ movedCount' = Increment(movedCount, category)
    /\ moveIdx' = moveIdx + 1
    /\ UNCHANGED << files, errorCount, failures >> /\ MoveKeep

\* the summary and the return value of organizeFiles
Report ==
    /\ pc = "move"
    /\ moveIdx > Len(filesToMove)
    /\ totalRow' = Len(filesToMove)
    /\ exitStatus' = IF errorCount > 0 THEN 1 ELSE 0
    /\ pc' = "done"
    /\ UNCHANGED << fsVars, walkerVars, moverVars >> /\ MainKeep

organizeFiles ==
    \/ OrganizeStart \/ collectFiles \/ listTopLevel \/ NothingToDo \/ StartMoving
    \/ MoveCreateFails \/ MoveRenameFails \/ MoveFile \/ MovePreview \/ Report

(***************************************************************************)
(* The runs of the program                                                 *)
(***************************************************************************)
\* the most files in the tree when the program starts
MaxFiles == 3

\* the largest --depth of a run
MaxDepth == 2

Prefixes == { "", "my_" }

ProgramNames == { "forg", "fo" }

\* where the files of a tree may be
CandidatePaths ==
    { << "a.txt" >>, << "forg" >>, << "fo" >>, << ".env" >>, << "Thumbs.db" >>,
      << "sub", "a.txt" >>, << "sub", "deep", "b.md" >>,
      << "build", "a.txt" >>, << ".git", "config" >>,
      << "Documents", "a.txt" >> }

\* the directories a set of files needs
Ancestors(p) == { SubSeq(p, 1, k) : k \in 1..(Len(p) - 1) }

Configs ==
    [ prefix : Prefixes, verbose : BOOLEAN, dryRun : BOOLEAN,
      recursive : BOOLEAN, depth : 1..MaxDepth,
      showHelp : BOOLEAN, showVersion : BOOLEAN ]

Init ==
    /\ pc = "main"
    /\ argv = << >> /\ argi = 1 /\ warnings = 0
    /\ config \in Configs
    /\ programName \in ProgramNames
    /\ \E chosen \in SUBSET CandidatePaths :
        /\ Cardinality(chosen) <= MaxFiles
        /\ files = [ p \in chosen |-> p ]
        /\ dirs = UNION { Ancestors(p) : p \in chosen }
    /\ snapshot = [ files |-> files, dirs |-> dirs ]
    /\ stack = << >> /\ visited = {} /\ failedDirs = {} /\ filesToMove = << >>
    /\ skippedCount = 0
    /\ moveIdx = 1 /\ movedCount = NoCounts /\ errorCount = 0 /\ failures = 0
    /\ totalRow = -1 /\ exitStatus = -1
    /\ ClsIdle /\ UqIdle

Next == MainHelp \/ MainVersion \/ organizeFiles

Spec == Init /\ [][Next]_vars

(***************************************************************************)
(* Properties of the runs                                                  *)
(***************************************************************************)
PendingMoves == 1..Len(filesToMove)

\* how many PendingMoves have p as their source
TimesPending(p) == Cardinality({ k \in PendingMoves : filesToMove[k][1] = p })

PendingSources == { filesToMove[k][1] : k \in PendingMoves }

\* the depth of the directory that contains p; the starting directory is 1
DepthOf(p) == Len(p)

\* the skip rule of section 3: a name of the skip set, or a leading "."
NameIsSkipped(name) ==
    \/ name \in { ".git", ".svn", ".hg", ".bzr", ".vscode", ".idea", ".vs",
                  "build", "dist", "node_modules", ".cache", "__pycache__",
                  ".DS_Store", "Thumbs.db", ".Spotlight-V100", ".Trashes" }
    \/ SubSeq(name, 1, 1) = "."

UnderSkippedDir(p) == \E a \in Ancestors(p) : NameIsSkipped(Filename(a))

RECURSIVE SumCounts(_)
SumCounts(counts) ==
    IF DOMAIN counts = {} THEN 0
    ELSE LET c == CHOOSE k \in DOMAIN counts : TRUE
         IN  counts[c] + SumCounts([ k \in DOMAIN counts \ {c} |-> counts[k] ])

\* C1: with dryRun set, whatever the other flags, the run creates no
\* directory and moves, renames or deletes no file: the filesystem is at
\* every moment what it was when the process started.
C1_DryRunLeavesFilesystem ==
    config.dryRun => files = snapshot.files /\ dirs = snapshot.dirs

\* a dry run that went through the mover for a file below a subdirectory
C1_Witness ==
    /\ config.dryRun /\ config.recursive /\ config.prefix # ""
    /\ pc = "done"
    /\ totalRow >= 2
    /\ SumCounts(movedCount) >= 2

\* C2: the exit status of a process that returns from main is 1 if an error
\* occurred during the run (a traversal error on a directory, a
\* destination-creation error or a move error), and 0 otherwise.
C2_ExitStatus ==
    (pc = "done" /\ exitStatus # Aborted) =>
        exitStatus = IF failedDirs # {} \/ errorCount > 0 THEN 1 ELSE 0

\* the files a recursive walk of depth N owes a PendingMove, as claimed
OwedByDepth(p) ==
    /\ DepthOf(p) <= config.depth
    /\ ~NameIsSkipped(Filename(p)) /\ ~IsProgramFile(Filename(p))
    /\ ~UnderSkippedDir(p)

\* every directory from the starting directory down to the one holding p
\* could be read
Readable(p) == failedDirs \cap (Ancestors(p) \cup { currentDir }) = {}

C6_OnePendingMoveAsStated ==
    /\ \A p \in visited :
           (~NameIsSkipped(Filename(p)) /\ Filename(p) # programName)
               => TimesPending(p) = 1
    /\ \A k \in PendingMoves : filesToMove[k][2] # ""

\* C6: every non-directory the walker visits whose name the skip rules do
\* not match and that is neither the filename of the running executable nor
\* "forg" has exactly one PendingMove, and every PendingMove has a non-empty
\* category.
C6_OnePendingMove ==
    /\ \A p \in visited :
           (~NameIsSkipped(Filename(p)) /\ Filename(p) \notin { programName, "forg" })
               => TimesPending(p) = 1
    /\ \A k \in PendingMoves : filesToMove[k][2] # ""

\* both ways of collecting have taken a file without a listed extension
C6_Witness ==
    /\ pc = "collected"
    /\ programName = "forg"
    /\ << "fo" >> \in visited /\ TimesPending(<< "fo" >>) = 1
    /\ << "forg" >> \in visited /\ TimesPending(<< "forg" >>) = 0
    /\ \E k \in PendingMoves : filesToMove[k][2] = "Others"

\* C7: no PendingMove has a source whose name is in the skip set or starts
\* with ".", and in recursive mode none has a source below a directory of
\* the walk whose name is in the skip set or starts with ".".
C7_SkipRule ==
    \A k \in PendingMoves :
        /\ ~NameIsSkipped(Filename(filesToMove[k][1]))
        /\ config.recursive => ~UnderSkippedDir(filesToMove[k][1])

\* a recursive walk deep enough to reach them has passed over a dot file
\* and a skipped directory and has collected another file
C7_Witness ==
    /\ pc = "collected" /\ config.recursive /\ config.depth >= 2
    /\ << ".env" >> \in visited
    /\ << "build", "a.txt" >> \in DOMAIN files
    /\ << "sub", "a.txt" >> \in PendingSources

\* C10: at the end of a run the error count plus the moved counts equal the
\* number of PendingMoves, and the total row equals the sum of the moved
\* counts.
C10_FailedFilesNotMoved ==
    (pc = "done" /\ totalRow >= 0) =>
        /\ errorCount + SumCounts(movedCount) = Len(filesToMove)
        /\ totalRow = SumCounts(movedCount)

(***************************************************************************)
(* Study of getUniquePath                                                  *)
(***************************************************************************)
\* the calls of getUniquePath in one behaviour of the study
MaxCalls == 2

UqDir == << "Documents" >>

UqNames == { "a.txt", "noext", "a.b.txt", ".rc" }

\* the numeric suffixes already taken in the destination folder
UqTaken ==
    { 1..m : m \in { 0, 1, 2, SafetyLimit - 1, SafetyLimit } }
    \cup { (1..SafetyLimit) \ {j} : j \in { 1, 2, 500 } }
    \cup { {2}, {1, 3}, 2..SafetyLimit }

\* basename_k.ext
Numbered(filename, k) == BaseName(filename) \o "_" \o to_string(k) \o DotExtension(filename)

InitUnique ==
    /\ pc = "unique"
    /\ uqName \in UqNames
    /\ uqNow \in Clock
    /\ uqOut = [ path |-> << >>, probes |-> 0 ]
    /\ uqCalls = 0
    /\ dirs = { UqDir }
    /\ \E taken \in UqTaken, present \in BOOLEAN :
         LET paths == { Append(UqDir, Numbered(uqName, k)) : k \in taken }
                      \cup (IF present THEN { Append(UqDir, uqName) } ELSE {})
         IN  files = [ p \in paths |-> p ]
    /\ snapshot = [ files |-> files, dirs |-> dirs ]
    /\ ParserIdle /\ RunIdle /\ ClsIdle

UniqueCall ==
    /\ pc = "unique"
    /\ uqCalls < MaxCalls
    /\ uqOut' = getUniquePathProbes(UqDir, uqName, uqNow)
    /\ uqCalls' = uqCalls + 1
    /\ pc' = "returned"
    /\ UNCHANGED << parserVars, startVars, fsVars, walkerVars, moverVars,
                    reportVars, clsVars, uqName, uqNow >>

\* a file is renamed to the path returned, and the clock goes on
UniqueOccupy ==
    /\ pc = "returned"
    /\ files' = [ p \in DOMAIN files \cup { uqOut.path } |->
                    IF p \in DOMAIN files THEN files[p] ELSE << uqName >> ]
    /\ uqNow' \in { t \in Clock : t >= uqNow }
    /\ pc' = "unique"
    /\ UNCHANGED << parserVars, startVars, dirs, walkerVars, moverVars,
                    reportVars, clsVars, uqName, uqOut, uqCalls >>

NextUnique == UniqueCall \/ UniqueOccupy

SpecUnique == InitUnique /\ [][NextUnique]_vars

\* the numeric suffixes that are free in the destination folder
FreeSuffixes ==
    { k \in 1..SafetyLimit : ~Exists(Append(UqDir, Numbered(uqName, k))) }

\* C8: getUniquePath(dir, name) is dir/name when that path is free;
\* otherwise dir/basename_k.ext for the smallest k in 1..1000 whose path is
\* free; and a timestamp-suffixed name when all of 1..1000 are taken, after
\* at most 1000 numeric attempts.
C8_CollisionResolution ==
    pc = "returned" =>
        /\ ~Exists(Append(UqDir, uqName)) => uqOut.path = Append(UqDir, uqName)
        /\ (Exists(Append(UqDir, uqName)) /\ FreeSuffixes # {}) =>
               \E k \in FreeSuffixes :
                   /\ \A j \in FreeSuffixes : k <= j
                   /\ uqOut.path = Append(UqDir, Numbered(uqName, k))
        /\ (Exists(Append(UqDir, uqName)) /\ FreeSuffixes = {}) =>
               uqOut.path =
                   Append(UqDir, BaseName(uqName) \o "_" \o to_string(uqNow)
                                     \o DotExtension(uqName))
        /\ uqOut.probes <= SafetyLimit

\* with a.txt and a_1.txt present, a.txt resolves to a_2.txt
C8_Witness ==
    /\ pc = "returned"
    /\ uqName = "a.txt"
    /\ DOMAIN files = { << "Documents", "a.txt" >>, << "Documents", "a_1.txt" >> }
    /\ uqOut.path = << "Documents", "a_2.txt" >>

(***************************************************************************)
(* Runs whose destination folder is crowded                                *)
(***************************************************************************)
\* with the prefix ".", the folder of the documents is hidden and the walker
\* passes over it
CrowdedPrefixes == { "", "." }

CrowdedDir == << ".Documents" >>

\* a.txt and a_1.txt .. a_1000.txt, left by earlier runs
CrowdedNames ==
    { "a.txt" } \cup { Numbered("a.txt", k) : k \in 1..SafetyLimit }

CrowdedFiles == { Append(CrowdedDir, name) : name \in CrowdedNames }

\* the files outside the crowded folder
CrowdedCandidates ==
    { << "a.txt" >>, << "sub", "a.txt" >>, << "forg" >>, << ".env" >> }

InitCrowded ==
    /\ pc = "main"
    /\ argv = << >> /\ argi = 1 /\ warnings = 0
    /\ config \in [ prefix : CrowdedPrefixes, verbose : BOOLEAN, dryRun : BOOLEAN,
                    recursive : BOOLEAN, depth : 1..MaxDepth,
                    showHelp : BOOLEAN, showVersion : BOOLEAN ]
    /\ programName \in ProgramNames
    /\ \E chosen \in SUBSET CrowdedCandidates :
        /\ Cardinality(chosen) <= MaxFiles
        /\ files = [ p \in chosen \cup CrowdedFiles |-> p ]
        /\ dirs = { CrowdedDir } \cup UNION { Ancestors(p) : p \in chosen }
    /\ snapshot = [ files |-> files, dirs |-> dirs ]
    /\ stack = << >> /\ visited = {} /\ failedDirs = {} /\ filesToMove = << >>
    /\ skippedCount = 0
    /\ moveIdx = 1 /\ movedCount = NoCounts /\ errorCount = 0 /\ failures = 0
    /\ totalRow = -1 /\ exitStatus = -1
    /\ ClsIdle /\ UqIdle

SpecCrowded == InitCrowded /\ [][Next]_vars

====
